---- MODULE Spec2Model ----
(***************************************************************************)
(* A model of the holidays crate: the calendar arithmetic (src/date.rs),   *)
(* the country bitset (src/country.rs), the index tables emitted by the    *)
(* build script (build.rs), the lookup helpers (src/data.rs) and the query *)
(* planner / iterators (src/query.rs, src/lib.rs).                         *)
(***************************************************************************)
EXTENDS Integers, Sequences, FiniteSets, TLC

VARIABLES
    pc,      \* position of the modelled process
    rows,    \* the holiday rows of holidays.csv read by the build script
    tab,     \* the tables emitted by gen_data_tables (holiday_data.rs)
    sel,     \* the arguments of the current get_holidays call
    query,   \* the Query produced by country_query.and(date_query)
    iter,    \* the IterImpl state of the returned query::Iter
    out,     \* global-table positions yielded so far by Iter::next
    probes,  \* countries probed so far in the exact-match table by Iter::next
    ymdIn,   \* calendar input (year, month, day) of Date::from_ymd
    days,    \* the Date (day count) computed by Date::from_ymd
    ymdOut,  \* the (year, month, day) computed back by Date::ymd
    opA,     \* left operand of DateQuery & DateQuery
    opB,     \* right operand of DateQuery & DateQuery
    opR,     \* the result of opA & opB
    opC,     \* third operand of a chain of two ANDs
    assocL,  \* the result of (opA & opB) & opC
    assocR,  \* the result of opA & (opB & opC)
    qA,      \* receiver of Query::and
    qB,      \* argument of Query::and
    bnd,     \* the BoundsResultImpl state of the iterator of get_bounding_entries
    bout,    \* entries yielded so far by BoundsResult::next
    csA,     \* a CountrySet: the set being built, or the first operand of | and &
    csB,     \* second CountrySet operand
    csC,     \* third CountrySet operand
    csRes,   \* the results of the | and & expressions over csA, csB, csC
    csIt,    \* the CountrySetIter over csA
    csOut,   \* what the calls of CountrySetIter::next returned so far
    csExp,   \* the countries inserted into csA that no intersection removed
    csOps,   \* number of operations applied to csA
    stOut,   \* the result of SystemTime::try_from(Date)
    stBack,  \* the Date converted back from that SystemTime
    idxCall, \* the last call of year_to_index or date_to_index and its result
    dayIndex \* the day_index the build script parses from a date

vars == <<pc, rows, tab, sel, query, iter, out, probes, ymdIn, days, ymdOut, opA, opB, opR,
          opC, assocL, assocR, qA, qB, bnd, bout,
          csA, csB, csC, csRes, csIt, csOut, csExp, csOps, stOut, stBack, idxCall, dayIndex>>

engineVars == <<rows, tab, sel, query, iter, out, probes, qA, qB, bnd, bout>>
calVars == <<ymdIn, days, ymdOut>>
algVars == <<opA, opB, opR, opC, assocL, assocR>>
boundsVars == <<qA, qB, bnd, bout>>
setVars == <<csA, csB, csC, csRes, csIt, csOut, csExp, csOps>>
timeVars == <<stOut, stBack>>
auxVars == <<setVars, timeVars, idxCall, dayIndex>>

(***************************************************************************)
(* Bounds of the model.                                                    *)
(***************************************************************************)
\* longest holidays.csv (number of rows) the model explores
MaxRows == 2
\* years explored on each side of every year of interest of the calendar
YearRadius == 1
\* longest collection of countries given to get_bounding_entries
MaxBoundsLen == 2
\* most operations applied to a CountrySet before it is iterated
MaxSetOps == 3

(***************************************************************************)
(* Rust integer helpers.                                                   *)
(***************************************************************************)
\* Rust `/` on signed integers truncates toward zero
TruncDiv(a, b) ==
    IF a >= 0 THEN a \div b ELSE -((-a) \div b)

\* isize::div_euclid / rem_euclid with a positive divisor
DivEuclid(a, b) == a \div b
RemEuclid(a, b) == a % b

Max(a, b) == IF a >= b THEN a ELSE b
Min(a, b) == IF a <= b THEN a ELSE b

\* Option::None of an Option<usize>
None == 0 - 1
\* outcome of a call that panics
Panic == 0 - 2

(***************************************************************************)
(* src/date.rs : Date                                                      *)
(***************************************************************************)
YEAR_DAYS == 365
ERA_YEARS == 400
DAYS_IN_4_YEARS == 4 * YEAR_DAYS + 1
DAYS_IN_100_YEARS == 25 * DAYS_IN_4_YEARS - 1
DAYS_IN_400_YEARS == 4 * DAYS_IN_100_YEARS + 1
ERA_DAYS == DAYS_IN_400_YEARS
UNIX_EPOCH_DAY == 719468

\* a plausible slip: truncating instead of Euclidean division of the year
from_ymd_trunc(year, month, day) ==
    LET y == IF month <= 2 THEN year - 1 ELSE year
        era == TruncDiv(y, ERA_YEARS)
        year_of_era == y - era * ERA_YEARS
        day_of_year == TruncDiv(153 * ((month + 9) % 12) + 2, 5) + day - 1
        day_of_era == year_of_era * YEAR_DAYS + TruncDiv(year_of_era, 4)
                      - TruncDiv(year_of_era, 100) + day_of_year
    IN era * ERA_DAYS + day_of_era - UNIX_EPOCH_DAY

\* Date::from_ymd (days_from_civil)
from_ymd(year, month, day) ==
    LET y == IF month <= 2 THEN year - 1 ELSE year
        era == DivEuclid(y, ERA_YEARS)
        year_of_era == y - era * ERA_YEARS
        day_of_year == TruncDiv(153 * ((month + 9) % 12) + 2, 5) + day - 1
        day_of_era == year_of_era * YEAR_DAYS + (year_of_era \div 4)
                      - (year_of_era \div 100) + day_of_year
    IN era * ERA_DAYS + day_of_era - UNIX_EPOCH_DAY

\* Date::from_year
from_year(year) == from_ymd(year, 1, 1)

\* a plausible slip: the year is not moved forward for January and February
ymd_noshift(d) ==
    LET julian_days == d + UNIX_EPOCH_DAY
        era == DivEuclid(julian_days, ERA_DAYS)
        day_of_era == RemEuclid(julian_days, ERA_DAYS)
        leap_years == day_of_era \div (DAYS_IN_4_YEARS - 1)
        centuries == day_of_era \div (DAYS_IN_100_YEARS - 1)
        last_day == day_of_era \div (DAYS_IN_400_YEARS - 1)
        year_of_era == (day_of_era - leap_years + centuries - last_day) \div YEAR_DAYS
        year == year_of_era + era * ERA_YEARS
        day_of_year == day_of_era
                       - (YEAR_DAYS * year_of_era + (year_of_era \div 4) - (year_of_era \div 100))
        month_shifted == (5 * day_of_year + 2) \div 153
        day == day_of_year - ((153 * month_shifted + 2) \div 5) + 1
        month == IF month_shifted < 10 THEN month_shifted + 3 ELSE month_shifted - 9
    IN <<year, month, day>>

\* Date::ymd (civil_from_days), with the divisors exactly as written in the source
ymd(d) ==
    LET julian_days == d + UNIX_EPOCH_DAY
        era == DivEuclid(julian_days, ERA_DAYS)
        day_of_era == RemEuclid(julian_days, ERA_DAYS)
        leap_years == day_of_era \div (DAYS_IN_4_YEARS - 1)
        centuries == day_of_era \div (DAYS_IN_100_YEARS - 1)
        last_day == day_of_era \div (DAYS_IN_400_YEARS - 1)
        year_of_era == (day_of_era - leap_years + centuries - last_day) \div YEAR_DAYS
        year == year_of_era + era * ERA_YEARS
        day_of_year == day_of_era
                       - (YEAR_DAYS * year_of_era + (year_of_era \div 4) - (year_of_era \div 100))
        month_shifted == (5 * day_of_year + 2) \div 153
        day == day_of_year - ((153 * month_shifted + 2) \div 5) + 1
        month == IF month_shifted < 10 THEN month_shifted + 3 ELSE month_shifted - 9
    IN <<IF month <= 2 THEN year + 1 ELSE year, month, day>>

\* Date::year
DateYear(d) == ymd(d)[1]

\* SECONDS_IN_DAY
SECONDS_IN_DAY == 86400

\* `u64::MAX as isize`: the cast keeps the bits, all ones, which is -1
U64_MAX_AS_ISIZE == 0 - 1

\* a std::time::SystemTime, as its whole seconds after (+) or before (-) UNIX_EPOCH,
\* or the DateConversionError, or the arithmetic overflow of `relative as u64 * ..`
TimeOk(secs) == [kind |-> "Ok", secs |-> secs]
TimeErr == [kind |-> "Err", secs |-> 0]
TimeOverflow == [kind |-> "Overflow", secs |-> 0]

\* impl TryFrom<Date> for std::time::SystemTime
SystemTimeTryFrom(value) ==
    LET relative == value - UNIX_EPOCH_DAY
        limit == TruncDiv(U64_MAX_AS_ISIZE, SECONDS_IN_DAY)
    IN IF relative >= 0
       THEN IF relative > limit THEN TimeErr
            ELSE TimeOk(relative * SECONDS_IN_DAY)
       ELSE IF relative < limit THEN TimeErr
            ELSE TimeOverflow

\* impl From<std::time::SystemTime> for Date
DateFromSystemTime(secs) ==
    IF secs >= 0 THEN TruncDiv(secs, SECONDS_IN_DAY)
    ELSE 0 - TruncDiv(0 - secs, SECONDS_IN_DAY)

(***************************************************************************)
(* build.rs : the offline index builder                                    *)
(***************************************************************************)
DEFAULT_MIN_YEAR == 2000
DEFAULT_MAX_YEAR == 2035

\* codes of the enabled countries, sorted as main sorts them (build.rs:254);
\* the ordinal of a country is its position in this list, from 0
CODES == <<"FR", "JP", "US">>

\* Country::COUNT
COUNT == Len(CODES)

Countries == 0 .. (COUNT - 1)

\* the `countries` map of main: code -> Country { index, .. }; None when absent
CountryIndex(code) ==
    IF \E i \in Countries : CODES[i + 1] = code
    THEN CHOOSE i \in Countries : CODES[i + 1] = code
    ELSE None

\* order of the holiday names (String::cmp)
NameOrder == <<"Autumnal Equinox", "Independence Day">>

NameRank(name) == CHOOSE i \in 1..Len(NameOrder) : NameOrder[i] = name

\* ymd_as_isize: the day index the builder stores in a record
ymd_as_isize(y, m, d) ==
    LET adjusted_year == y - (IF m <= 2 THEN 1 ELSE 0)
        era == IF adjusted_year >= 0
               THEN TruncDiv(adjusted_year, 400)
               ELSE TruncDiv(adjusted_year - 399, 400)
        year_of_era == adjusted_year - era * 400
        month_part == IF m > 2 THEN m - 3 ELSE m + 9
        day_of_year == TruncDiv(153 * month_part + 2, 5) + d - 1
        day_of_era == year_of_era * 365 + TruncDiv(year_of_era, 4)
                      - TruncDiv(year_of_era, 100) + day_of_year
        days_since_julian == era * 146097 + day_of_era
    IN days_since_julian - 719163

\* impl FromStr for Date (build.rs): the parsed date of a row
ParseDate(y, m, d) ==
    [year |-> y, month |-> m, day |-> d, day_index |-> ymd_as_isize(y, m, d)]

\* parse_holiday_row: None when the country code is not an enabled country
parse_holiday_row(row) ==
    IF CountryIndex(row.code) = None
    THEN <<>>
    ELSE <<[country |-> CountryIndex(row.code),
            date |-> ParseDate(row.y, row.m, row.d),
            name |-> row.name]>>

RECURSIVE FilterMapRows(_)
\* .filter_map(|row| parse_holiday_row(row, &countries))
FilterMapRows(rs) ==
    IF rs = <<>> THEN <<>>
    ELSE parse_holiday_row(Head(rs)) \o FilterMapRows(Tail(rs))

RECURSIVE SkipWhileYear(_, _)
\* .skip_while(|it| it.date.year < min_req_year)
SkipWhileYear(hs, min_req_year) ==
    IF hs = <<>> THEN <<>>
    ELSE IF Head(hs).date.year < min_req_year
         THEN SkipWhileYear(Tail(hs), min_req_year)
         ELSE hs

RECURSIVE TakeWhileYear(_, _)
\* .take_while(|it| it.date.year <= max_req_year)
TakeWhileYear(hs, max_req_year) ==
    IF hs = <<>> THEN <<>>
    ELSE IF Head(hs).date.year <= max_req_year
         THEN <<Head(hs)>> \o TakeWhileYear(Tail(hs), max_req_year)
         ELSE <<>>

\* main: the `holidays` vector handed to gen_data_tables
LoadHolidays(rs) ==
    TakeWhileYear(SkipWhileYear(FilterMapRows(rs), DEFAULT_MIN_YEAR), DEFAULT_MAX_YEAR)

\* impl FromStr for Date (build.rs) succeeds: year parses as i16, month and day as u8
RowDateParses(row) ==
    /\ row.y >= 0 - 32768 /\ row.y <= 32767
    /\ row.m >= 0 /\ row.m <= 255
    /\ row.d >= 0 /\ row.d <= 255

RECURSIVE ConsumedRows(_, _)
\* the rows the lazy chain filter_map / skip_while / take_while pulls from the
\* reader before collect() ends: it stops at the row whose date fails to parse
\* (the expect panics there) and after the first row take_while rejects
ConsumedRows(rs, skipping) ==
    IF rs = <<>> THEN <<>>
    ELSE LET row == Head(rs)
         IN IF CountryIndex(row.code) = None
            THEN <<row>> \o ConsumedRows(Tail(rs), skipping)
            ELSE IF ~RowDateParses(row) THEN <<row>>
            ELSE IF skipping /\ row.y < DEFAULT_MIN_YEAR
                 THEN <<row>> \o ConsumedRows(Tail(rs), TRUE)
            ELSE IF row.y > DEFAULT_MAX_YEAR THEN <<row>>
            ELSE <<row>> \o ConsumedRows(Tail(rs), FALSE)

\* main panics while loading: date.parse().expect("invalid date format in
\* holidays.csv") on a consumed row of an enabled country
MainPanics(rs) ==
    LET consumed == ConsumedRows(rs, TRUE)
    IN \E i \in 1..Len(consumed) :
          CountryIndex(consumed[i].code) # None /\ ~RowDateParses(consumed[i])

\* exact_lookup.build() refuses two entries with the same key FullSpec(country, date)
DuplicateKey(hs) ==
    \E i, j \in 1..Len(hs) :
        i < j /\ hs[i].country = hs[j].country /\ hs[i].date = hs[j].date

\* gen_data_tables panics: the unwrap of first_entry() on no rows, or a duplicate key
GenPanics(hs) == hs = <<>> \/ DuplicateKey(hs)

SetMin(S) == CHOOSE x \in S : \A y \in S : x <= y
SetMax(S) == CHOOSE x \in S : \A y \in S : x >= y

\* year_lookup: BTreeMap year -> first position (0-based) of a record of that year
YearLookup(hs) ==
    [y \in {hs[i].date.year : i \in 1..Len(hs)} |->
        SetMin({i \in 1..Len(hs) : hs[i].date.year = y}) - 1]

\* country_lookup: BTreeMap country index -> positions (0-based), in table order
CountryLookup(hs) ==
    [c \in {hs[i].country : i \in 1..Len(hs)} |->
        LET RECURSIVE Collect(_)
            Collect(i) ==
                IF i > Len(hs) THEN <<>>
                ELSE (IF hs[i].country = c THEN <<i - 1>> ELSE <<>>) \o Collect(i + 1)
        IN Collect(1)]

RECURSIVE YearTableFrom(_, _, _, _)
\* the loop `for y in min_year..max_year` that writes YEAR_JUMP_TABLE
YearTableFrom(lookup, y, max_year, index) ==
    IF y >= max_year THEN <<>>
    ELSE LET next == IF y \in DOMAIN lookup THEN lookup[y] ELSE index
         IN <<next>> \o YearTableFrom(lookup, y + 1, max_year, next)

RECURSIVE CountryTableFrom(_, _, _)
\* the loop `for ci in min_country..max_country` that writes COUNTRY_JUMP_TABLE
CountryTableFrom(lookup, ci, max_country) ==
    IF ci >= max_country THEN <<>>
    ELSE <<IF ci \in DOMAIN lookup THEN lookup[ci] ELSE <<>> >>
         \o CountryTableFrom(lookup, ci + 1, max_country)

\* gen_data_tables: the tables of holiday_data.rs (for a call that does not panic)
gen_data_tables(hs) ==
    LET year_lookup == YearLookup(hs)
        country_lookup == CountryLookup(hs)
        min_year == SetMin(DOMAIN year_lookup)
        max_year == SetMax(DOMAIN year_lookup)
        min_country == SetMin(DOMAIN country_lookup)
        max_country == SetMax(DOMAIN country_lookup)
    IN [DATA |-> [i \in 1..Len(hs) |->
                    [code |-> hs[i].country, date |-> hs[i].date.day_index,
                     name |-> hs[i].name]],
        DATA_MIN_YEAR |-> min_year,
        DATA_MAX_YEAR |-> max_year,
        YEAR_JUMP_TABLE |-> YearTableFrom(year_lookup, min_year, max_year, 0),
        COUNTRY_JUMP_TABLE |-> CountryTableFrom(country_lookup, min_country, max_country),
        DATA_MAP |-> {<<hs[i].country, hs[i].date.day_index, i - 1>> : i \in 1..Len(hs)}]

\* no tables: the build script has not run, or it panicked
NoTables ==
    [DATA |-> <<>>, DATA_MIN_YEAR |-> 0, DATA_MAX_YEAR |-> 0, YEAR_JUMP_TABLE |-> <<>>,
     COUNTRY_JUMP_TABLE |-> <<>>, DATA_MAP |-> {}]

(***************************************************************************)
(* src/country.rs : CountrySet, a bitset of [u64; N_WORDS]                 *)
(* A u64 word is modelled by the set of its one-bits (positions 0..63).    *)
(***************************************************************************)
WORD_BITS == 64
\* Country::COUNT.div_ceil(WORD_BITS)
N_WORDS == (COUNT + WORD_BITS - 1) \div WORD_BITS

\* CountrySet::new
CountrySetNew == [w \in 1..N_WORDS |-> {}]

\* CountrySet::all: the full set of the enabled countries
CountrySetAll ==
    [w \in 1..N_WORDS |-> {b \in 0..(WORD_BITS - 1) : (w - 1) * WORD_BITS + b < COUNT}]

\* a plausible slip: the word is assigned (=) instead of or-ed (|=)
Insert_overwrite(words, country) ==
    LET idx == country
        word == idx \div WORD_BITS
        bit == idx % WORD_BITS
    IN [words EXCEPT ![word + 1] = {bit}]

\* CountrySet::insert
Insert(words, country) ==
    LET idx == country
        word == idx \div WORD_BITS
        bit == idx % WORD_BITS
    IN [words EXCEPT ![word + 1] = @ \cup {bit}]

\* CountrySet::contains
Contains(words, country) ==
    LET idx == country
        word == idx \div WORD_BITS
        bit == idx % WORD_BITS
    IN bit \in words[word + 1]

RECURSIVE Extend(_, _)
\* CountrySet::extend
Extend(words, cs) ==
    IF cs = <<>> THEN words ELSE Extend(Insert(words, Head(cs)), Tail(cs))

\* impl BitOrAssign for CountrySet
BitOr(a, b) == [w \in 1..N_WORDS |-> a[w] \cup b[w]]

\* a plausible slip: the loop of bitor_assign copied without changing |= to &=
BitAnd_copied_or(a, b) == [w \in 1..N_WORDS |-> a[w] \cup b[w]]

\* impl BitAndAssign for CountrySet
BitAnd(a, b) == [w \in 1..N_WORDS |-> a[w] \cap b[w]]

\* CountrySet::iter
CountrySetIterNew(words) == [words |-> words, word_idx |-> 0, bit_idx |-> 0]

RECURSIVE CountrySetIterNext(_)
\* CountrySetIter::next: [item |-> the country or None, it |-> the iterator afterwards].
\* The inner `while self.bit_idx < 64` loop stops at the lowest one-bit at or above
\* bit_idx, or runs off the word.
CountrySetIterNext(it) ==
    IF it.word_idx >= N_WORDS THEN [item |-> None, it |-> it]
    ELSE LET word == it.words[it.word_idx + 1]
             ahead == {b \in word : b >= it.bit_idx /\ b < 64}
         IN IF word = {} \/ ahead = {}
            THEN CountrySetIterNext([it EXCEPT !.word_idx = @ + 1, !.bit_idx = 0])
            ELSE LET bit == CHOOSE b \in ahead : \A c \in ahead : b <= c
                     idx == it.word_idx * 64 + bit
                     nxt == [it EXCEPT !.bit_idx = bit + 1]
                 IN IF idx < COUNT
                    THEN [item |-> idx, it |-> nxt]
                    ELSE [item |-> None, it |-> nxt]

RECURSIVE IterCollect(_)
\* the countries a CountrySetIter yields until its first None
IterCollect(it) ==
    LET r == CountrySetIterNext(it)
    IN IF r.item = None THEN <<>> ELSE <<r.item>> \o IterCollect(r.it)

(***************************************************************************)
(* src/data.rs : lookup helpers over the tables                            *)
(***************************************************************************)
DataLen(t) == Len(t.DATA)

\* values an out-of-bounds get_unchecked read of YEAR_JUMP_TABLE may produce
OobValues == 0 .. (MaxRows + 1)

\* year_to_index; g is what an out-of-bounds read of the table produces
year_to_index(t, year, g) ==
    IF year < t.DATA_MIN_YEAR THEN None
    ELSE IF year > t.DATA_MAX_YEAR THEN None
    ELSE LET k == year - t.DATA_MIN_YEAR
         IN IF k < Len(t.YEAR_JUMP_TABLE) THEN t.YEAR_JUMP_TABLE[k + 1] ELSE g

\* whether a slice of DATA is sorted by date (the contract of binary_search_by)
SliceSorted(t, start, end) ==
    \A i, j \in (start + 1)..end : i <= j => t.DATA[i].date <= t.DATA[j].date

\* slice.binary_search_by(..).unwrap_or_else(|i| i): every index the search may
\* return: any matching element, else the insertion point; unspecified when the
\* slice is not sorted
BinarySearch(t, start, end, date) ==
    LET n == end - start
        matches == {i \in 0..(n - 1) : t.DATA[start + i + 1].date = date}
    IN IF ~SliceSorted(t, start, end) THEN 0..n
       ELSE IF matches # {} THEN matches
       ELSE {Cardinality({i \in 0..(n - 1) : t.DATA[start + i + 1].date < date})}

\* date_to_index: the set of outcomes (None, Panic or an index) for a given g
date_to_index(t, date, g) ==
    LET y == DateYear(date)
        start == year_to_index(t, y, g)
        e == year_to_index(t, y + 1, g)
        end == IF e = None THEN DataLen(t) ELSE e
    IN IF start = None THEN {None}
       ELSE IF start > end \/ end > DataLen(t) THEN {Panic}
       ELSE {IF start + index >= DataLen(t) THEN None ELSE start + index :
                index \in BinarySearch(t, start, end, date)}

\* a plausible slip: the probe keys on the date alone
country_date_to_holiday_anycountry(t, country, date) ==
    IF \E e \in t.DATA_MAP : e[2] = date
    THEN (CHOOSE e \in t.DATA_MAP : e[2] = date)[3]
    ELSE None

\* country_date_to_holiday: the position of the record, None on a miss
country_date_to_holiday(t, country, date) ==
    IF \E e \in t.DATA_MAP : e[1] = country /\ e[2] = date
    THEN (CHOOSE e \in t.DATA_MAP : e[1] = country /\ e[2] = date)[3]
    ELSE None

(***************************************************************************)
(* src/query.rs : DateQuery                                                *)
(* A DateQuery is [kind, a, b]; kind "NoFilter" stands for Option::None.   *)
(***************************************************************************)
Exact(d) == [kind |-> "Exact", a |-> d, b |-> d]
FromDate(d) == [kind |-> "FromDate", a |-> d, b |-> d]
ToDate(d) == [kind |-> "ToDate", a |-> d, b |-> d]
DateRange(from, to) == [kind |-> "DateRange", a |-> from, b |-> to]
NoFilter == [kind |-> "NoFilter", a |-> 0, b |-> 0]

\* DateQuery::EMPTY
DQ_EMPTY == DateRange(0, 0)

\* std::ops::Bound<Date>
Included(d) == [kind |-> "Included", v |-> d]
Excluded(d) == [kind |-> "Excluded", v |-> d]
Unbounded == [kind |-> "Unbounded", v |-> 0]

\* a plausible slip: an included end bound is not moved to the day after it
date_range_end_not_moved(start_bound, end_bound) ==
    IF start_bound.kind = "Unbounded"
    THEN CASE end_bound.kind = "Included" -> ToDate(end_bound.v)
           [] end_bound.kind = "Excluded" -> ToDate(end_bound.v)
           [] OTHER -> NoFilter
    ELSE LET start == IF start_bound.kind = "Included"
                      THEN start_bound.v ELSE start_bound.v + 1
         IN CASE end_bound.kind = "Included" -> DateRange(start, end_bound.v)
              [] end_bound.kind = "Excluded" -> DateRange(start, end_bound.v)
              [] OTHER -> FromDate(start)

\* DateQuery::date_range
date_range(start_bound, end_bound) ==
    IF start_bound.kind = "Unbounded"
    THEN CASE end_bound.kind = "Included" -> ToDate(end_bound.v + 1)
           [] end_bound.kind = "Excluded" -> ToDate(end_bound.v)
           [] OTHER -> NoFilter
    ELSE LET start == IF start_bound.kind = "Included"
                      THEN start_bound.v ELSE start_bound.v + 1
         IN CASE end_bound.kind = "Included" -> DateRange(start, end_bound.v + 1)
              [] end_bound.kind = "Excluded" -> DateRange(start, end_bound.v)
              [] OTHER -> FromDate(start)

\* DateQuery::is_empty
is_empty(dq) == IF dq.kind = "DateRange" THEN dq.a >= dq.b ELSE FALSE

\* a plausible slip: Until(a) taken as including the day a when met with Exact
bitand_until_inclusive(lhs, rhs) ==
    CASE lhs.kind = "FromDate" /\ rhs.kind = "FromDate" -> FromDate(Max(lhs.a, rhs.a))
      [] lhs.kind = "ToDate" /\ rhs.kind = "ToDate" -> ToDate(Min(lhs.a, rhs.a))
      [] lhs.kind = "Exact" /\ rhs.kind = "Exact" ->
            IF lhs.a # rhs.a THEN DQ_EMPTY ELSE Exact(lhs.a)
      [] {lhs.kind, rhs.kind} = {"FromDate", "Exact"} ->
            LET a == IF lhs.kind = "FromDate" THEN lhs.a ELSE rhs.a
                b == IF lhs.kind = "Exact" THEN lhs.a ELSE rhs.a
            IN IF a > b THEN DQ_EMPTY ELSE Exact(b)
      [] {lhs.kind, rhs.kind} = {"ToDate", "Exact"} ->
            LET a == IF lhs.kind = "ToDate" THEN lhs.a ELSE rhs.a
                b == IF lhs.kind = "Exact" THEN lhs.a ELSE rhs.a
            IN IF b > a THEN DQ_EMPTY ELSE Exact(b)
      [] {lhs.kind, rhs.kind} = {"Exact", "DateRange"} ->
            LET a == IF lhs.kind = "Exact" THEN lhs.a ELSE rhs.a
                r == IF lhs.kind = "DateRange" THEN lhs ELSE rhs
            IN IF r.a > a \/ r.b <= a THEN DQ_EMPTY ELSE Exact(a)
      [] {lhs.kind, rhs.kind} = {"FromDate", "ToDate"} ->
            LET a == IF lhs.kind = "FromDate" THEN lhs.a ELSE rhs.a
                b == IF lhs.kind = "ToDate" THEN lhs.a ELSE rhs.a
            IN IF a >= b THEN DQ_EMPTY ELSE DateRange(a, b)
      [] {lhs.kind, rhs.kind} = {"FromDate", "DateRange"} ->
            LET a == IF lhs.kind = "FromDate" THEN lhs.a ELSE rhs.a
                r == IF lhs.kind = "DateRange" THEN lhs ELSE rhs
                from == Max(a, r.a)
            IN IF from >= r.b THEN DQ_EMPTY ELSE DateRange(from, r.b)
      [] {lhs.kind, rhs.kind} = {"ToDate", "DateRange"} ->
            LET a == IF lhs.kind = "ToDate" THEN lhs.a ELSE rhs.a
                r == IF lhs.kind = "DateRange" THEN lhs ELSE rhs
                to == Max(a, r.b)
            IN IF to >= r.a THEN DQ_EMPTY ELSE DateRange(r.a, to)
      [] lhs.kind = "DateRange" /\ rhs.kind = "DateRange" ->
            LET from == Max(lhs.a, rhs.a)
                to == Min(lhs.b, rhs.b)
            IN IF to >= from THEN DQ_EMPTY ELSE DateRange(from, to)

\* impl BitAnd for DateQuery
bitand(lhs, rhs) ==
    CASE lhs.kind = "FromDate" /\ rhs.kind = "FromDate" -> FromDate(Max(lhs.a, rhs.a))
      [] lhs.kind = "ToDate" /\ rhs.kind = "ToDate" -> ToDate(Min(lhs.a, rhs.a))
      [] lhs.kind = "Exact" /\ rhs.kind = "Exact" ->
            IF lhs.a # rhs.a THEN DQ_EMPTY ELSE Exact(lhs.a)
      [] {lhs.kind, rhs.kind} = {"FromDate", "Exact"} ->
            LET a == IF lhs.kind = "FromDate" THEN lhs.a ELSE rhs.a
                b == IF lhs.kind = "Exact" THEN lhs.a ELSE rhs.a
            IN IF a > b THEN DQ_EMPTY ELSE Exact(b)
      [] {lhs.kind, rhs.kind} = {"ToDate", "Exact"} ->
            LET a == IF lhs.kind = "ToDate" THEN lhs.a ELSE rhs.a
                b == IF lhs.kind = "Exact" THEN lhs.a ELSE rhs.a
            IN IF b >= a THEN DQ_EMPTY ELSE Exact(b)
      [] {lhs.kind, rhs.kind} = {"Exact", "DateRange"} ->
            LET a == IF lhs.kind = "Exact" THEN lhs.a ELSE rhs.a
                r == IF lhs.kind = "DateRange" THEN lhs ELSE rhs
            IN IF r.a > a \/ r.b <= a THEN DQ_EMPTY ELSE Exact(a)
      [] {lhs.kind, rhs.kind} = {"FromDate", "ToDate"} ->
            LET a == IF lhs.kind = "FromDate" THEN lhs.a ELSE rhs.a
                b == IF lhs.kind = "ToDate" THEN lhs.a ELSE rhs.a
            IN IF a >= b THEN DQ_EMPTY ELSE DateRange(a, b)
      [] {lhs.kind, rhs.kind} = {"FromDate", "DateRange"} ->
            LET a == IF lhs.kind = "FromDate" THEN lhs.a ELSE rhs.a
                r == IF lhs.kind = "DateRange" THEN lhs ELSE rhs
                from == Max(a, r.a)
            IN IF from >= r.b THEN DQ_EMPTY ELSE DateRange(from, r.b)
      [] {lhs.kind, rhs.kind} = {"ToDate", "DateRange"} ->
            LET a == IF lhs.kind = "ToDate" THEN lhs.a ELSE rhs.a
                r == IF lhs.kind = "DateRange" THEN lhs ELSE rhs
                to == Max(a, r.b)
            IN IF to >= r.a THEN DQ_EMPTY ELSE DateRange(r.a, to)
      [] lhs.kind = "DateRange" /\ rhs.kind = "DateRange" ->
            LET from == Max(lhs.a, rhs.a)
                to == Min(lhs.b, rhs.b)
            IN IF to >= from THEN DQ_EMPTY ELSE DateRange(from, to)

\* a range of positions (std::ops::Range<usize>), and the outcome of a panic
PosRange(start, end) == [start |-> start, end |-> end]
PanicRange == [start |-> Panic, end |-> Panic]

\* DateQuery::as_data_range for a given out-of-bounds value g: the set of outcomes
AsDataRangeWith(t, dq, g) ==
    LET LEN == DataLen(t) IN
    CASE dq.kind = "DateRange" ->
            {IF a = Panic \/ b = Panic THEN PanicRange
             ELSE IF a # None /\ b # None THEN PosRange(a, b)
             ELSE IF a # None THEN PosRange(a, LEN)
             ELSE IF b # None THEN PosRange(0, b)
             ELSE PosRange(0, 0) :
                a \in date_to_index(t, dq.a, g), b \in date_to_index(t, dq.b, g)}
      [] dq.kind = "FromDate" ->
            {IF it = Panic THEN PanicRange
             ELSE IF it # None THEN PosRange(it, LEN) ELSE PosRange(LEN, LEN) :
                it \in date_to_index(t, dq.a, g)}
      [] dq.kind = "ToDate" ->
            {IF it = Panic THEN PanicRange
             ELSE IF it # None THEN PosRange(0, it) ELSE PosRange(0, 0) :
                it \in date_to_index(t, dq.a, g)}
      [] dq.kind = "Exact" ->
            {IF from = Panic THEN PanicRange
             ELSE IF from = None THEN PosRange(LEN, LEN)
             ELSE IF to = Panic THEN PanicRange
             ELSE IF to # None THEN PosRange(from, to) ELSE PosRange(from, LEN) :
                from \in date_to_index(t, dq.a, g), to \in date_to_index(t, dq.a + 1, g)}

\* DateQuery::as_data_range: every outcome, over what the unchecked reads may produce
as_data_range(t, dq) == UNION {AsDataRangeWith(t, dq, g) : g \in OobValues}

(***************************************************************************)
(* src/country.rs : CountrySet::holidays, the k-way merge                  *)
(***************************************************************************)
\* the least element of a BinaryHeap<Reverse<(usize, usize)>>
HeapMin(heap) ==
    CHOOSE e \in heap :
        \A f \in heap : e[1] < f[1] \/ (e[1] = f[1] /\ e[2] <= f[2])

\* whether COUNTRY_JUMP_TABLE[i as usize] panics for a member of the set
HolidaysPanics(t, words) ==
    \E k \in 1..Len(IterCollect(CountrySetIterNew(words))) :
        IterCollect(CountrySetIterNew(words))[k] >= Len(t.COUNTRY_JUMP_TABLE)

\* CountrySet::holidays (for a call that does not panic): a slice iterator is
\* [list, pos], pos the number of elements already taken
holidays(t, words) ==
    LET members == IterCollect(CountrySetIterNew(words))
        lists == [k \in 1..Len(members) |-> t.COUNTRY_JUMP_TABLE[members[k] + 1]]
    IN [heap |-> {<<lists[k][1], k - 1>> : k \in {j \in 1..Len(lists) : lists[j] # <<>>}},
        iterators |-> [k \in 1..Len(lists) |->
                          [list |-> lists[k], pos |-> IF lists[k] # <<>> THEN 1 ELSE 0]]]

\* CountrySetHolidayIter::next: [item |-> position or None, it |-> iterator afterwards]
HolidayIterNext(h) ==
    IF h.heap = {} THEN [item |-> None, it |-> h]
    ELSE LET top == HeapMin(h.heap)
             val == top[1]
             idx == top[2]
             src == h.iterators[idx + 1]
         IN IF src.pos < Len(src.list)
            THEN [item |-> val,
                  it |-> [heap |-> (h.heap \ {top}) \cup {<<src.list[src.pos + 1], idx>>},
                          iterators |-> [h.iterators EXCEPT ![idx + 1].pos = @ + 1]]]
            ELSE [item |-> val,
                  it |-> [heap |-> h.heap \ {top}, iterators |-> h.iterators]]

(***************************************************************************)
(* src/query.rs : Query, IterImpl, the selections                          *)
(***************************************************************************)
\* Query::EMPTY
Q_EMPTY == [countries |-> CountrySetAll, date_filter |-> NoFilter]

\* Query::country
QueryCountry(c) == [countries |-> Insert(CountrySetNew, c), date_filter |-> NoFilter]

\* Query::countries
QueryCountries(cs) == [countries |-> Extend(CountrySetNew, cs), date_filter |-> NoFilter]

\* Query::date
QueryDate(d) == [countries |-> CountrySetNew, date_filter |-> Exact(d)]

\* Query::date_range
QueryDateRange(sb, eb) == [countries |-> CountrySetNew, date_filter |-> date_range(sb, eb)]

\* a plausible slip: the country sets are intersected instead of united
QueryAnd_intersect(self, other) ==
    [countries |-> BitAnd(self.countries, other.countries),
     date_filter |->
        IF self.date_filter.kind = "NoFilter" THEN other.date_filter
        ELSE IF other.date_filter.kind = "NoFilter" THEN self.date_filter
        ELSE bitand(self.date_filter, other.date_filter)]

\* Query::and
QueryAnd(self, other) ==
    [countries |-> BitOr(self.countries, other.countries),
     date_filter |->
        IF self.date_filter.kind = "NoFilter" THEN other.date_filter
        ELSE IF other.date_filter.kind = "NoFilter" THEN self.date_filter
        ELSE bitand(self.date_filter, other.date_filter)]

\* CountrySelection: All, One(country), Many(iterable)
SelAll == [kind |-> "All", c |-> 0, cs |-> <<>>]
SelOne(c) == [kind |-> "One", c |-> c, cs |-> <<>>]
SelMany(cs) == [kind |-> "Many", c |-> 0, cs |-> cs]

\* DateSelection: None, One(date), Range(bounds)
DateNone == [kind |-> "None", d |-> 0, sb |-> Unbounded, eb |-> Unbounded]
DateOne(d) == [kind |-> "One", d |-> d, sb |-> Unbounded, eb |-> Unbounded]
DateRangeSel(sb, eb) == [kind |-> "Range", d |-> 0, sb |-> sb, eb |-> eb]
\* DateSelection::Range whose bounds are isize values (DateLike = isize)
YearRangeSel(sb, eb) == [kind |-> "RangeYears", d |-> 0, sb |-> sb, eb |-> eb]

\* impl From<isize> for Date, applied to the value of a bound by `it.clone().into()`
DateFromIsize(bound) ==
    IF bound.kind = "Unbounded" THEN bound ELSE [bound EXCEPT !.v = from_year(@)]

\* CountrySelection::into_query
CountryIntoQuery(cs) ==
    CASE cs.kind = "All" -> Q_EMPTY
      [] cs.kind = "One" -> QueryCountry(cs.c)
      [] cs.kind = "Many" -> QueryCountries(cs.cs)

\* DateSelection::into_query
DateIntoQuery(ds) ==
    CASE ds.kind = "None" -> Q_EMPTY
      [] ds.kind = "One" -> QueryDate(ds.d)
      [] ds.kind = "Range" -> QueryDateRange(ds.sb, ds.eb)
      [] ds.kind = "RangeYears" ->
            QueryDateRange(DateFromIsize(ds.sb), DateFromIsize(ds.eb))

\* IterImpl, as one record shape for its four variants and for a panic
NoInner == CountrySetIterNew(CountrySetNew)
NoHeap == [heap |-> {}, iterators |-> <<>>]
IterState(kind, inner, date, range, countries, merge) ==
    [kind |-> kind, inner |-> inner, date |-> date, range |-> range,
     countries |-> countries, merge |-> merge]
IterEmpty == IterState("Empty", NoInner, 0, PosRange(0, 0), CountrySetNew, NoHeap)
IterPanic == IterState("Panic", NoInner, 0, PosRange(0, 0), CountrySetNew, NoHeap)

\* impl IntoIterator for Query: every IterImpl the call may produce
into_iter(t, q) ==
    CASE q.date_filter.kind = "NoFilter" ->
            IF HolidaysPanics(t, q.countries) THEN {IterPanic}
            ELSE {IterState("NoDate", NoInner, 0, PosRange(0, 0), CountrySetNew,
                            holidays(t, q.countries))}
      [] is_empty(q.date_filter) -> {IterEmpty}
      [] q.date_filter.kind = "Exact" ->
            {IterState("Exact", CountrySetIterNew(q.countries), q.date_filter.a,
                       PosRange(0, 0), CountrySetNew, NoHeap)}
      [] OTHER ->
            {IF r = PanicRange THEN IterPanic
             ELSE IterState("DateRange", NoInner, 0, r, q.countries, NoHeap) :
                r \in as_data_range(t, q.date_filter)}

RECURSIVE ExactNext(_, _)
\* Iter::next, IterImpl::Exact
ExactNext(t, it) ==
    LET r == CountrySetIterNext(it.inner)
        nxt == [it EXCEPT !.inner = r.it]
    IN IF r.item = None THEN [item |-> None, it |-> nxt, probed |-> <<>>]
       ELSE LET hit == country_date_to_holiday(t, r.item, it.date)
            IN IF hit # None THEN [item |-> hit, it |-> nxt, probed |-> <<r.item>>]
               ELSE LET rest == ExactNext(t, nxt)
                    IN [rest EXCEPT !.probed = <<r.item>> \o @]

RECURSIVE RangeNext(_, _)
\* Iter::next, IterImpl::DateRange
RangeNext(t, it) ==
    IF it.range.start >= it.range.end THEN [item |-> None, it |-> it]
    ELSE LET i == it.range.start
             nxt == [it EXCEPT !.range.start = @ + 1]
         IN IF Contains(it.countries, t.DATA[i + 1].code)
            THEN [item |-> i, it |-> nxt]
            ELSE RangeNext(t, nxt)

\* Iter::next: [item |-> the position of the yielded record or None, it |-> the
\* state afterwards, probed |-> the countries looked up in DATA_MAP by the call]
IterNextOf(t, it) ==
    CASE it.kind = "Empty" -> [item |-> None, it |-> it, probed |-> <<>>]
      [] it.kind = "Exact" -> ExactNext(t, it)
      [] it.kind = "DateRange" ->
            LET r == RangeNext(t, it)
            IN [item |-> r.item, it |-> r.it, probed |-> <<>>]
      [] it.kind = "NoDate" ->
            LET r == HolidayIterNext(it.merge)
            IN [item |-> r.item, it |-> [it EXCEPT !.merge = r.it], probed |-> <<>>]

\* BoundsResultImpl: Empty, One(country), Many(iterator over the remaining input)
BoundsImplEmpty == [kind |-> "Empty", country |-> 0, inner |-> <<>>]
BoundsImplOne(c) == [kind |-> "One", country |-> c, inner |-> <<>>]
BoundsImplMany(cs) == [kind |-> "Many", country |-> 0, inner |-> cs]

\* CountrySelection::bounds
bounds(cs) ==
    CASE cs.kind = "All" -> BoundsImplEmpty
      [] cs.kind = "One" -> BoundsImplOne(cs.c)
      [] cs.kind = "Many" -> BoundsImplMany(cs.cs)

\* an item of BoundsResult: (country, None) or (country, Some((first, last))), the
\* two records given by their positions (0-based) in DATA
BoundsEntry(country, first, last) == [country |-> country, first |-> first, last |-> last]

\* BoundsResult::next: [status |-> "none" (the iterator has ended), "some" (entry
\* is the item) or "panic" (COUNTRY_JUMP_TABLE is indexed out of bounds),
\* it |-> the state afterwards]
BoundsNext(t, b) ==
    IF b.kind = "Empty" \/ (b.kind = "Many" /\ b.inner = <<>>)
    THEN [status |-> "none", entry |-> BoundsEntry(0, None, None), it |-> b]
    ELSE LET next == IF b.kind = "One" THEN b.country ELSE Head(b.inner)
             after == IF b.kind = "One" THEN BoundsImplEmpty
                      ELSE BoundsImplMany(Tail(b.inner))
         IN IF next >= Len(t.COUNTRY_JUMP_TABLE)
            THEN [status |-> "panic", entry |-> BoundsEntry(next, None, None), it |-> after]
            ELSE LET indices == t.COUNTRY_JUMP_TABLE[next + 1]
                 IN [status |-> "some",
                     entry |-> IF indices = <<>> THEN BoundsEntry(next, None, None)
                               ELSE BoundsEntry(next, indices[1], indices[Len(indices)]),
                     it |-> after]

\* get_holidays: the Query handed to into_iter
get_holidays_query(cs, ds) == QueryAnd(CountryIntoQuery(cs), DateIntoQuery(ds))

(***************************************************************************)
(* Inputs explored by the model.                                           *)
(***************************************************************************)
\* calendar dates of the holiday rows: two years with rows around a year without
DateUniverse == {<<2001, 1, 10>>, <<2001, 11, 11>>, <<2003, 1, 10>>}

\* names of the holiday rows given to the engine
RowNames == {"Independence Day"}

RowUniverse ==
    {[code |-> CODES[k], y |-> u[1], m |-> u[2], d |-> u[3], name |-> n] :
        k \in 1..COUNT, u \in DateUniverse, n \in RowNames}

\* the order holidays.csv is written in: (date, country, name) ascending
RowLE(r1, r2) ==
    LET d1 == <<r1.y, r1.m, r1.d>>
        d2 == <<r2.y, r2.m, r2.d>>
        DateLT(a, b) == a[1] < b[1] \/ (a[1] = b[1] /\ (a[2] < b[2] \/ (a[2] = b[2] /\ a[3] < b[3])))
    IN \/ DateLT(d1, d2)
       \/ /\ d1 = d2
          /\ \/ CountryIndex(r1.code) < CountryIndex(r2.code)
             \/ /\ r1.code = r2.code
                /\ NameRank(r1.name) <= NameRank(r2.name)

SortedRowSeqs ==
    {s \in UNION {[1..n -> RowUniverse] : n \in 0..MaxRows} :
        \A i \in 1..(Len(s) - 1) : RowLE(s[i], s[i + 1])}

\* dates asked of the engine: before and after the data, the from_ymd dates of
\* the rows and the day indices the builder stores for them
QueryDates ==
    {from_ymd(1999, 6, 1), from_ymd(2005, 6, 1)}
    \cup {from_ymd(u[1], u[2], u[3]) : u \in DateUniverse}
    \cup {ymd_as_isize(u[1], u[2], u[3]) : u \in DateUniverse}

RECURSIVE AscendingSeq(_)
\* the elements of a set of integers as an ascending sequence
AscendingSeq(S) ==
    IF S = {} THEN <<>> ELSE <<SetMin(S)>> \o AscendingSeq(S \ {SetMin(S)})

CountrySelections ==
    {SelAll} \cup {SelOne(c) : c \in Countries}
    \cup {SelMany(AscendingSeq(S)) : S \in SUBSET Countries}

DateSelections ==
    {DateNone} \cup {DateOne(d) : d \in QueryDates}
    \cup {DateRangeSel(sb, eb) :
            sb \in {Unbounded} \cup {Included(d) : d \in QueryDates},
            eb \in {Unbounded} \cup {Excluded(d) : d \in QueryDates}}

(***************************************************************************)
(* Spec: the build script runs once, then one query is made and iterated.  *)
(***************************************************************************)
CalIdle == ymdIn = <<1970, 1, 1>> /\ days = 0 /\ ymdOut = <<1970, 1, 1>>
AlgIdle ==
    /\ opA = NoFilter /\ opB = NoFilter /\ opR = NoFilter
    /\ opC = NoFilter /\ assocL = NoFilter /\ assocR = NoFilter
\* no call of year_to_index / date_to_index yet
NoLookup == [fn |-> "none", arg |-> 0, result |-> None, oob |-> FALSE]
\* no SystemTime conversion yet
NoTime == [kind |-> "None", secs |-> 0]
SetIdle ==
    /\ csA = CountrySetNew /\ csB = CountrySetNew /\ csC = CountrySetNew
    /\ csRes = <<>> /\ csIt = CountrySetIterNew(CountrySetNew) /\ csOut = <<>>
    /\ csExp = {} /\ csOps = 0
TimeIdle == stOut = NoTime /\ stBack = 0
AuxIdle == SetIdle /\ TimeIdle /\ idxCall = NoLookup /\ dayIndex = 0
BoundsIdle == qA = Q_EMPTY /\ qB = Q_EMPTY /\ bnd = BoundsImplEmpty /\ bout = <<>>
EngineIdle ==
    /\ BoundsIdle
    /\ rows = <<>> /\ tab = NoTables
    /\ sel = [countries |-> SelAll, date |-> DateNone]
    /\ query = Q_EMPTY /\ iter = IterEmpty /\ out = <<>> /\ probes = <<>>

Init ==
    /\ pc = "start"
    /\ rows \in SortedRowSeqs
    /\ tab = NoTables
    /\ sel = [countries |-> SelAll, date |-> DateNone]
    /\ query = Q_EMPTY /\ iter = IterEmpty /\ out = <<>> /\ probes = <<>>
    /\ BoundsIdle /\ CalIdle /\ AlgIdle /\ AuxIdle

\* build.rs main: load the rows and emit the tables, or panic
Build ==
    /\ pc = "start"
    /\ LET hs == LoadHolidays(rows)
       IN IF MainPanics(rows) \/ GenPanics(hs)
          THEN pc' = "buildpanic" /\ tab' = tab
          ELSE pc' = "built" /\ tab' = gen_data_tables(hs)
    /\ UNCHANGED <<rows, sel, query, iter, out, probes, boundsVars, calVars, algVars, auxVars>>

\* get_holidays(countries, date): build the query and its iterator
GetHolidays ==
    /\ pc = "built"
    /\ \E cs \in CountrySelections, ds \in DateSelections :
          LET q == get_holidays_query(cs, ds)
          IN \E it \in into_iter(tab, q) :
                /\ sel' = [countries |-> cs, date |-> ds]
                /\ query' = q
                /\ iter' = it
                /\ pc' = IF it.kind = "Panic" THEN "panic" ELSE "iter"
    /\ UNCHANGED <<rows, tab, out, probes, boundsVars, calVars, algVars, auxVars>>

\* Iter::next: yield one record, or None at the end
IterNext ==
    /\ pc = "iter"
    /\ LET r == IterNextOf(tab, iter)
       IN /\ iter' = r.it
          /\ probes' = probes \o r.probed
          /\ IF r.item = None
             THEN pc' = "done" /\ out' = out
             ELSE pc' = "iter" /\ out' = Append(out, r.item)
    /\ UNCHANGED <<rows, tab, sel, query, boundsVars, calVars, algVars, auxVars>>

\* country selections given to get_bounding_entries: Any, one country, and
\* collections in any order, with repeats, the empty one included
BoundsSelections ==
    {SelAll} \cup {SelOne(c) : c \in Countries}
    \cup {SelMany(cs) : cs \in UNION {[1..n -> Countries] : n \in 0..MaxBoundsLen}}

\* get_bounding_entries(countries): countries.into().bounds()
GetBoundingEntries ==
    /\ pc = "built"
    /\ \E cs \in BoundsSelections :
          /\ sel' = [countries |-> cs, date |-> DateNone]
          /\ bnd' = bounds(cs)
    /\ bout' = <<>>
    /\ pc' = "bounds"
    /\ UNCHANGED <<rows, tab, query, iter, out, probes, qA, qB, calVars, algVars, auxVars>>

\* BoundsResult::next: yield one entry, end, or panic
BoundsResultNext ==
    /\ pc = "bounds"
    /\ LET r == BoundsNext(tab, bnd)
       IN /\ bnd' = r.it
          /\ CASE r.status = "none" -> pc' = "bounds_done" /\ bout' = bout
               [] r.status = "panic" -> pc' = "bounds_panic" /\ bout' = bout
               [] OTHER -> pc' = "bounds" /\ bout' = Append(bout, r.entry)
    /\ UNCHANGED <<rows, tab, sel, query, iter, out, probes, qA, qB, calVars, algVars, auxVars>>

\* years asked of year_to_index: the years of the rows and the years around them
LookupYears == 2000..2004

\* dates asked of date_to_index: the dates asked of the engine, a date after the
\* last row of 2001 and a date of the year without rows
LookupDates == QueryDates \cup {from_ymd(2001, 12, 31), from_ymd(2002, 6, 1)}

\* whether year_to_index(year) reads YEAR_JUMP_TABLE past its end
YearReadOob(t, year) ==
    /\ year >= t.DATA_MIN_YEAR /\ year <= t.DATA_MAX_YEAR
    /\ year - t.DATA_MIN_YEAR >= Len(t.YEAR_JUMP_TABLE)

\* year_to_index(year)
YearToIndexCall ==
    /\ pc = "built"
    /\ \E year \in LookupYears, g \in OobValues :
          idxCall' = [fn |-> "year_to_index", arg |-> year,
                      result |-> year_to_index(tab, year, g),
                      oob |-> YearReadOob(tab, year)]
    /\ pc' = "lookup"
    /\ UNCHANGED <<engineVars, calVars, algVars, setVars, timeVars, dayIndex>>

\* date_to_index(date)
DateToIndexCall ==
    /\ pc = "built"
    /\ \E date \in LookupDates, g \in OobValues :
          \E r \in date_to_index(tab, date, g) :
             idxCall' = [fn |-> "date_to_index", arg |-> date, result |-> r,
                         oob |-> \/ YearReadOob(tab, DateYear(date))
                                 \/ YearReadOob(tab, DateYear(date) + 1)]
    /\ pc' = "lookup"
    /\ UNCHANGED <<engineVars, calVars, algVars, setVars, timeVars, dayIndex>>

Next ==
    \/ Build \/ GetHolidays \/ IterNext \/ GetBoundingEntries \/ BoundsResultNext
    \/ YearToIndexCall \/ DateToIndexCall

Spec == Init /\ [][Next]_vars

(***************************************************************************)
(* SpecCal: Date::from_ymd, then Date::ymd, on one calendar date.          *)
(***************************************************************************)
\* years of interest: the test dates of src/date.rs, the epoch, century years
\* that are and are not leap years, year 0 and a negative era
YearsOfInterest ==
    {0 - 2344, 0 - 400, 0, 1602, 1700, 1800, 1900, 1970, 2000, 2025, 2100, 4423, 6453}

CalYears ==
    UNION {(y - YearRadius)..(y + YearRadius) : y \in YearsOfInterest}

\* the proleptic Gregorian calendar
IsLeapYear(y) == (y % 4 = 0 /\ y % 100 # 0) \/ y % 400 = 0

DaysInMonth(y, m) ==
    CASE m \in {1, 3, 5, 7, 8, 10, 12} -> 31
      [] m \in {4, 6, 9, 11} -> 30
      [] OTHER -> IF IsLeapYear(y) THEN 29 ELSE 28

CalendarDates ==
    {<<y, m, d>> : y \in CalYears, m \in 1..12, d \in 1..31} \cap
    {c \in CalYears \X (1..12) \X (1..31) : c[3] <= DaysInMonth(c[1], c[2])}

InitCal ==
    /\ pc = "cal_in"
    /\ ymdIn \in CalendarDates
    /\ days = 0
    /\ ymdOut = <<1970, 1, 1>>
    /\ EngineIdle /\ AlgIdle /\ AuxIdle

\* Date::from_ymd(y, m, d)
FromYmd ==
    /\ pc = "cal_in"
    /\ days' = from_ymd(ymdIn[1], ymdIn[2], ymdIn[3])
    /\ pc' = "cal_days"
    /\ UNCHANGED <<ymdIn, ymdOut, engineVars, algVars, auxVars>>

\* date.ymd()
Ymd ==
    /\ pc = "cal_days"
    /\ ymdOut' = ymd(days)
    /\ pc' = "cal_back"
    /\ UNCHANGED <<ymdIn, days, engineVars, algVars, auxVars>>

\* ymd_as_isize(y, m, d), the builder's conversion of the same calendar date
YmdAsIsize ==
    /\ pc = "cal_back"
    /\ dayIndex' = ymd_as_isize(ymdIn[1], ymdIn[2], ymdIn[3])
    /\ pc' = "cal_stored"
    /\ UNCHANGED <<calVars, engineVars, algVars, setVars, timeVars, idxCall>>

NextCal == FromYmd \/ Ymd \/ YmdAsIsize

SpecCal == InitCal /\ [][NextCal]_vars

(***************************************************************************)
(* SpecAnd: one application of DateQuery & DateQuery.                      *)
(***************************************************************************)
\* latest date of the operands explored
MaxAlgDate == 3

AlgDates == 0..MaxAlgDate

DateQueries ==
    {Exact(d) : d \in AlgDates} \cup {FromDate(d) : d \in AlgDates}
    \cup {ToDate(d) : d \in AlgDates}
    \cup {DateRange(a, b) : a \in AlgDates, b \in AlgDates}

InitAnd ==
    /\ pc = "and_in"
    /\ opA \in DateQueries
    /\ opB \in DateQueries
    /\ opR = NoFilter
    /\ opC = NoFilter /\ assocL = NoFilter /\ assocR = NoFilter
    /\ EngineIdle /\ CalIdle /\ AuxIdle

\* a & b
BitAndStep ==
    /\ pc = "and_in"
    /\ opR' = bitand(opA, opB)
    /\ pc' = "and_done"
    /\ UNCHANGED <<opA, opB, opC, assocL, assocR, engineVars, calVars, auxVars>>

NextAnd == BitAndStep

SpecAnd == InitAnd /\ [][NextAnd]_vars

(***************************************************************************)
(* SpecAssoc: a chain of two ANDs of three date predicates, grouped both   *)
(* ways.                                                                   *)
(***************************************************************************)
InitAssoc ==
    /\ pc = "assoc_in"
    /\ opA \in DateQueries
    /\ opB \in DateQueries
    /\ opC \in DateQueries
    /\ opR = NoFilter /\ assocL = NoFilter /\ assocR = NoFilter
    /\ EngineIdle /\ CalIdle /\ AuxIdle

\* (a & b) & c
AndLeft ==
    /\ pc = "assoc_in"
    /\ opR' = bitand(opA, opB)
    /\ assocL' = bitand(bitand(opA, opB), opC)
    /\ pc' = "assoc_left"
    /\ UNCHANGED <<opA, opB, opC, assocR, engineVars, calVars, auxVars>>

\* a & (b & c)
AndRight ==
    /\ pc = "assoc_left"
    /\ assocR' = bitand(opA, bitand(opB, opC))
    /\ pc' = "assoc_done"
    /\ UNCHANGED <<opA, opB, opC, opR, assocL, engineVars, calVars, auxVars>>

NextAssoc == AndLeft \/ AndRight

SpecAssoc == InitAssoc /\ [][NextAssoc]_vars

(***************************************************************************)
(* SpecQuery: one application of Query::and to two queries.                *)
(***************************************************************************)
\* the queries explored: any set of countries, with or without a date predicate
Queries ==
    {[countries |-> Extend(CountrySetNew, AscendingSeq(S)), date_filter |-> f] :
        S \in SUBSET Countries, f \in {NoFilter} \cup DateQueries}

InitQuery ==
    /\ pc = "qand_in"
    /\ qA \in Queries
    /\ qB \in Queries
    /\ rows = <<>> /\ tab = NoTables
    /\ sel = [countries |-> SelAll, date |-> DateNone]
    /\ query = Q_EMPTY /\ iter = IterEmpty /\ out = <<>> /\ probes = <<>>
    /\ bnd = BoundsImplEmpty /\ bout = <<>>
    /\ CalIdle /\ AlgIdle /\ AuxIdle

\* a.and(b)
QueryAndStep ==
    /\ pc = "qand_in"
    /\ query' = QueryAnd(qA, qB)
    /\ pc' = "qand_done"
    /\ UNCHANGED <<rows, tab, sel, iter, out, probes, qA, qB, bnd, bout, calVars, algVars, auxVars>>

NextQuery == QueryAndStep

SpecQuery == InitQuery /\ [][NextQuery]_vars

(***************************************************************************)
(* SpecSel: the arguments of one get_holidays call are turned into its     *)
(* Query.                                                                  *)
(***************************************************************************)
\* the bounds of a range over the values V: included, excluded or unbounded
BoundsOver(V) == {Unbounded} \cup {Included(v) : v \in V} \cup {Excluded(v) : v \in V}

\* years given as isize date arguments: a leap year, the year after it, a later one
SelYears == {2000, 2001, 2004}

\* country arguments: Any, one country, Option None and Some, a collection
SelCountrySelections ==
    {SelAll, SelOne(1), SelMany(<<>>), SelMany(<<2>>), SelMany(<<0, 2>>)}

\* date arguments: Any, one date, ranges of dates and ranges of years
SelDateSelections ==
    {DateNone} \cup {DateOne(d) : d \in AlgDates}
    \cup {DateRangeSel(sb, eb) : sb \in BoundsOver(AlgDates), eb \in BoundsOver(AlgDates)}
    \cup {YearRangeSel(sb, eb) : sb \in BoundsOver(SelYears), eb \in BoundsOver(SelYears)}

InitSel ==
    /\ pc = "sel_in"
    /\ sel \in [countries : SelCountrySelections, date : SelDateSelections]
    /\ rows = <<>> /\ tab = NoTables
    /\ query = Q_EMPTY /\ iter = IterEmpty /\ out = <<>> /\ probes = <<>>
    /\ BoundsIdle /\ CalIdle /\ AlgIdle /\ AuxIdle

\* countries.into().into_query().and(date.into().into_query())
IntoQuery ==
    /\ pc = "sel_in"
    /\ query' = get_holidays_query(sel.countries, sel.date)
    /\ pc' = "sel_done"
    /\ UNCHANGED <<rows, tab, sel, iter, out, probes, boundsVars, calVars, algVars, auxVars>>

NextSel == IntoQuery

SpecSel == InitSel /\ [][NextSel]_vars

(***************************************************************************)
(* SpecSetAlg: the | and & expressions over three CountrySets.             *)
(***************************************************************************)
\* the CountrySet holding the countries S
CountrySetOf(S) == Extend(CountrySetNew, AscendingSeq(S))

CountrySets == {CountrySetOf(S) : S \in SUBSET Countries}

InitSetAlg ==
    /\ pc = "alg_in"
    /\ csA \in CountrySets /\ csB \in CountrySets /\ csC \in CountrySets
    /\ csRes = <<>> /\ csIt = CountrySetIterNew(CountrySetNew) /\ csOut = <<>>
    /\ csExp = {} /\ csOps = 0
    /\ TimeIdle /\ idxCall = NoLookup /\ dayIndex = 0
    /\ EngineIdle /\ CalIdle /\ AlgIdle

\* a | b, b | a, (a | b) | c, a | (b | c), a | a, and the same with &
SetAlgebra ==
    /\ pc = "alg_in"
    /\ csRes' = [ab_or |-> BitOr(csA, csB), ba_or |-> BitOr(csB, csA),
                 ab_c_or |-> BitOr(BitOr(csA, csB), csC),
                 a_bc_or |-> BitOr(csA, BitOr(csB, csC)),
                 aa_or |-> BitOr(csA, csA),
                 ab_and |-> BitAnd(csA, csB), ba_and |-> BitAnd(csB, csA),
                 ab_c_and |-> BitAnd(BitAnd(csA, csB), csC),
                 a_bc_and |-> BitAnd(csA, BitAnd(csB, csC)),
                 aa_and |-> BitAnd(csA, csA)]
    /\ pc' = "alg_done"
    /\ UNCHANGED <<csA, csB, csC, csIt, csOut, csExp, csOps, timeVars, idxCall, dayIndex,
                   engineVars, calVars, algVars>>

NextSetAlg == SetAlgebra

SpecSetAlg == InitSetAlg /\ [][NextSetAlg]_vars

(***************************************************************************)
(* SpecSet: a CountrySet is built from the empty set by insert, extend,    *)
(* | and &, then iterated past its end.                                    *)
(***************************************************************************)
InitSet ==
    /\ pc = "set_build"
    /\ SetIdle
    /\ TimeIdle /\ idxCall = NoLookup /\ dayIndex = 0
    /\ EngineIdle /\ CalIdle /\ AlgIdle

\* set.insert(c)
SetInsert ==
    /\ pc = "set_build" /\ csOps < MaxSetOps
    /\ \E c \in Countries :
          /\ csA' = Insert(csA, c)
          /\ csExp' = csExp \cup {c}
    /\ csOps' = csOps + 1
    /\ UNCHANGED <<pc, csB, csC, csRes, csIt, csOut, timeVars, idxCall, dayIndex,
                   engineVars, calVars, algVars>>

\* set.extend(cs)
SetExtend ==
    /\ pc = "set_build" /\ csOps < MaxSetOps
    /\ \E cs \in UNION {[1..n -> Countries] : n \in 0..2} :
          /\ csA' = Extend(csA, cs)
          /\ csExp' = csExp \cup {cs[k] : k \in 1..Len(cs)}
    /\ csOps' = csOps + 1
    /\ UNCHANGED <<pc, csB, csC, csRes, csIt, csOut, timeVars, idxCall, dayIndex,
                   engineVars, calVars, algVars>>

\* set |= other
SetUnion ==
    /\ pc = "set_build" /\ csOps < MaxSetOps
    /\ \E S \in SUBSET Countries :
          /\ csA' = BitOr(csA, CountrySetOf(S))
          /\ csExp' = csExp \cup S
    /\ csOps' = csOps + 1
    /\ UNCHANGED <<pc, csB, csC, csRes, csIt, csOut, timeVars, idxCall, dayIndex,
                   engineVars, calVars, algVars>>

\* set &= other
SetIntersect ==
    /\ pc = "set_build" /\ csOps < MaxSetOps
    /\ \E S \in SUBSET Countries :
          /\ csA' = BitAnd(csA, CountrySetOf(S))
          /\ csExp' = csExp \cap S
    /\ csOps' = csOps + 1
    /\ UNCHANGED <<pc, csB, csC, csRes, csIt, csOut, timeVars, idxCall, dayIndex,
                   engineVars, calVars, algVars>>

\* set.iter()
SetIter ==
    /\ pc = "set_build"
    /\ csIt' = CountrySetIterNew(csA)
    /\ pc' = "set_iter"
    /\ UNCHANGED <<csA, csB, csC, csRes, csOut, csExp, csOps, timeVars, idxCall, dayIndex,
                   engineVars, calVars, algVars>>

\* CountrySetIter::next, called up to two times more than there are countries
SetIterNext ==
    /\ pc = "set_iter" /\ Len(csOut) < COUNT + 2
    /\ LET r == CountrySetIterNext(csIt)
       IN /\ csIt' = r.it
          /\ csOut' = Append(csOut, r.item)
    /\ UNCHANGED <<pc, csA, csB, csC, csRes, csExp, csOps, timeVars, idxCall, dayIndex,
                   engineVars, calVars, algVars>>

NextSet == SetInsert \/ SetExtend \/ SetUnion \/ SetIntersect \/ SetIter \/ SetIterNext

SpecSet == InitSet /\ [][NextSet]_vars

(***************************************************************************)
(* SpecTime: a Date is converted to SystemTime and, when that succeeds,    *)
(* back.                                                                   *)
(***************************************************************************)
\* first and last year of the dates converted
TimeYears == 1965..DEFAULT_MAX_YEAR

\* the dates converted: 1 January and 31 December of each year, the days around
\* day 0 and around day UNIX_EPOCH_DAY, and the dates the build script stores
TimeDates ==
    {from_ymd(y, 1, 1) : y \in TimeYears} \cup {from_ymd(y, 12, 31) : y \in TimeYears}
    \cup {0 - 1, 0, 1} \cup {UNIX_EPOCH_DAY - 1, UNIX_EPOCH_DAY, UNIX_EPOCH_DAY + 1}
    \cup {ymd_as_isize(u[1], u[2], u[3]) : u \in DateUniverse}

InitTime ==
    /\ pc = "time_in"
    /\ days \in TimeDates
    /\ ymdIn = <<1970, 1, 1>> /\ ymdOut = <<1970, 1, 1>>
    /\ EngineIdle /\ AlgIdle /\ AuxIdle

\* SystemTime::try_from(date)
TryFromDate ==
    /\ pc = "time_in"
    /\ stOut' = SystemTimeTryFrom(days)
    /\ pc' = "time_out"
    /\ UNCHANGED <<stBack, setVars, idxCall, dayIndex, engineVars, calVars, algVars>>

\* Date::from(time)
FromSystemTime ==
    /\ pc = "time_out" /\ stOut.kind = "Ok"
    /\ stBack' = DateFromSystemTime(stOut.secs)
    /\ pc' = "time_back"
    /\ UNCHANGED <<stOut, setVars, idxCall, dayIndex, engineVars, calVars, algVars>>

NextTime == TryFromDate \/ FromSystemTime

SpecTime == InitTime /\ [][NextTime]_vars

(***************************************************************************)
(* SpecBuild: build.rs main over holidays.csv files in any row order, with *)
(* rows of countries that are not enabled, rows outside the year window    *)
(* and rows whose date does not parse.                                     *)
(***************************************************************************)
\* country codes of the rows: two enabled countries and one that is not
BuildCodes == {"FR", "JP", "XX"}

\* dates of the rows: inside the window, before it, after it, and a month
\* that does not parse as u8
BuildDates ==
    {<<2001, 1, 10>>, <<2003, 1, 10>>, <<1999, 6, 1>>, <<2040, 1, 1>>, <<2001, 256, 10>>}

BuildRowUniverse ==
    {[code |-> c, y |-> u[1], m |-> u[2], d |-> u[3], name |-> n] :
        c \in BuildCodes, u \in BuildDates, n \in RowNames}

BuildRowSeqs == UNION {[1..n -> BuildRowUniverse] : n \in 0..MaxRows}

InitBuild ==
    /\ pc = "start"
    /\ rows \in BuildRowSeqs
    /\ tab = NoTables
    /\ sel = [countries |-> SelAll, date |-> DateNone]
    /\ query = Q_EMPTY /\ iter = IterEmpty /\ out = <<>> /\ probes = <<>>
    /\ BoundsIdle /\ CalIdle /\ AlgIdle /\ AuxIdle

NextBuild == Build

SpecBuild == InitBuild /\ [][NextBuild]_vars

(***************************************************************************)
(* Properties.                                                             *)
(***************************************************************************)
\* the countries of a CountrySet
Members(words) == {c \in Countries : Contains(words, c)}

\* the countries named by a CountrySelection
Selected(cs) ==
    CASE cs.kind = "All" -> Countries
      [] cs.kind = "One" -> {cs.c}
      [] cs.kind = "Many" -> {cs.cs[k] : k \in 1..Len(cs.cs)}

IsPrefix(a, b) == Len(a) <= Len(b) /\ \A k \in 1..Len(a) : a[k] = b[k]

\* a query has been made: its iterator exists, has ended, or the call panicked
Queried == pc \in {"iter", "done", "panic"}

\* positions (0-based) of the records of the countries C dated in [lo, hi)
PositionsIn(C, lo, hi) ==
    {i - 1 : i \in {j \in 1..DataLen(tab) :
                      /\ tab.DATA[j].code \in C
                      /\ lo <= tab.DATA[j].date
                      /\ tab.DATA[j].date < hi}}

\* positions (0-based) of all records of the countries C
PositionsOf(C) == {i - 1 : i \in {j \in 1..DataLen(tab) : tab.DATA[j].code \in C}}

\* the iteration so far yields `expected` in order: no panic, a prefix while it
\* runs, all of it at the end
Yields(expected) ==
    /\ pc # "panic"
    /\ IsPrefix(out, expected)
    /\ pc = "done" => out = expected

\* positions (0-based) of the records of the countries C dated d or later
PositionsFrom(C, d) ==
    {p \in PositionsOf(C) : tab.DATA[p + 1].date >= d}

\* positions (0-based) of the records of the countries C dated before d
PositionsBefore(C, d) ==
    {p \in PositionsOf(C) : tab.DATA[p + 1].date < d}

\* C1: get_holidays(C, Any), C one country or a collection, yields exactly the
\* records whose country is in C, in chronological (table) order
C1_AnyDateKeepsCountries ==
    (Queried /\ sel.countries.kind \in {"One", "Many"} /\ sel.date.kind = "None")
    => Yields(AscendingSeq(PositionsOf(Selected(sel.countries))))

\* C2: the query (C, Range(from, to)), from < to, yields exactly the records of C
\* dated in [from, to), each once, in ascending position order
C2_RangeScan ==
    (Queried /\ query.date_filter.kind = "DateRange"
             /\ query.date_filter.a < query.date_filter.b)
    => Yields(AscendingSeq(PositionsIn(Members(query.countries),
                                       query.date_filter.a, query.date_filter.b)))

\* C3: (C, From(d)) yields exactly the records of C dated >= d, and (C, Until(d))
\* exactly those dated < d
C3_FromUntil ==
    /\ (Queried /\ query.date_filter.kind = "FromDate")
       => Yields(AscendingSeq(PositionsFrom(Members(query.countries), query.date_filter.a)))
    /\ (Queried /\ query.date_filter.kind = "ToDate")
       => Yields(AscendingSeq(PositionsBefore(Members(query.countries), query.date_filter.a)))

\* the position of the record of country c dated d
PositionOf(c, d) ==
    (CHOOSE i \in 1..DataLen(tab) : tab.DATA[i].code = c /\ tab.DATA[i].date = d) - 1

C5_RowIsFound ==
    (pc = "done" /\ sel.countries.kind = "One" /\ sel.date.kind = "One")
    => LET hs == LoadHolidays(rows)
       IN \A i \in 1..Len(hs) :
            (/\ hs[i].country = sel.countries.c
             /\ from_ymd(hs[i].date.year, hs[i].date.month, hs[i].date.day) = sel.date.d)
            => out = <<i - 1>>

\* C6: the NoDate strategy over a country set C yields every position of a member
\* country once, in increasing order, ends when the heap is empty, and for a
\* single country yields that country's position list
C6_Merge ==
    (Queried /\ query.date_filter.kind = "NoFilter")
    => /\ Yields(AscendingSeq(PositionsOf(Members(query.countries))))
       /\ pc = "done" => iter.merge.heap = {}

RECURSIVE Drain(_, _)
\* the positions an iterator yields until its first None
Drain(t, it) ==
    LET r == IterNextOf(t, it)
    IN IF r.item = None THEN <<>> ELSE <<r.item>> \o Drain(t, r.it)

RecordsAt(ps) == {tab.DATA[ps[k] + 1] : k \in 1..Len(ps)}

\* C7: the records yielded by the Exact strategy for (C, Exact(d)) are, as a set,
\* the records yielded by the Range scan for (C, Range(d, d + 1))
C7_ExactEqualsRange ==
    (pc = "done" /\ query.date_filter.kind = "Exact")
    => \A it \in into_iter(tab, [countries |-> query.countries,
                                 date_filter |-> DateRange(query.date_filter.a,
                                                           query.date_filter.a + 1)]) :
          /\ it.kind # "Panic"
          /\ RecordsAt(Drain(tab, it)) = RecordsAt(out)

\* the day count of a calendar date, from the rules of the Gregorian calendar:
\* whole years since year 1, then whole months, then days
DaysBeforeYear(y) ==
    365 * (y - 1) + ((y - 1) \div 4) - ((y - 1) \div 100) + ((y - 1) \div 400)

RECURSIVE DaysBeforeMonth(_, _)
DaysBeforeMonth(y, m) ==
    IF m = 1 THEN 0 ELSE DaysBeforeMonth(y, m - 1) + DaysInMonth(y, m - 1)

CivilDays(c) ==
    (DaysBeforeYear(c[1]) + DaysBeforeMonth(c[1], c[2]) + c[3])
    - (DaysBeforeYear(1970) + 1)

\* the calendar day after c
NextDay(c) ==
    IF c[3] < DaysInMonth(c[1], c[2]) THEN <<c[1], c[2], c[3] + 1>>
    ELSE IF c[2] < 12 THEN <<c[1], c[2] + 1, 1>>
    ELSE <<c[1] + 1, 1, 1>>

\* C8: for every valid calendar date, Date::from_ymd(y, m, d).ymd() is (y, m, d)
C8_RoundTrip == pc = "cal_back" => ymdOut = ymdIn

\* C8 witness: a leap day of a negative year has made the round trip
C8_Witness ==
    pc = "cal_back" /\ ymdIn[1] < 0 /\ ymdIn[2] = 2 /\ ymdIn[3] = 29 /\ ymdOut = ymdIn

\* C9: Date::from_ymd is the signed day count from 1970-01-01 in the proleptic
\* Gregorian calendar, with the values of the tests, and consecutive calendar
\* days differ by exactly 1
C9_DaysSinceEpoch ==
    pc \in {"cal_days", "cal_back"}
    => /\ days = CivilDays(ymdIn)
       /\ ymdIn = <<1970, 1, 1>> => days = 0
       /\ ymdIn = <<1970, 2, 1>> => days = 31
       /\ ymdIn = <<2025, 6, 12>> => days = 20251
       /\ ymdIn = <<1602, 10, 12>> => days = 0 - 134125
       /\ ymdIn = <<6453, 3, 15>> => days = 1637456
       /\ LET n == NextDay(ymdIn) IN from_ymd(n[1], n[2], n[3]) = days + 1

\* C9 witness: the day count of a date before the epoch has been computed
C9_Witness ==
    pc = "cal_days" /\ ymdIn = <<1602, 10, 12>> /\ days = 0 - 134125

\* C10: Range(a, b) AND Range(c, d) is Range(max(a, c), min(b, d)) when
\* max(a, c) < min(b, d), and satisfies the emptiness test otherwise
C10_RangeAndRange ==
    (pc = "and_done" /\ opA.kind = "DateRange" /\ opB.kind = "DateRange")
    => LET lo == Max(opA.a, opB.a)
           hi == Min(opA.b, opB.b)
       IN IF lo < hi THEN opR = DateRange(lo, hi) ELSE is_empty(opR)

\* whether the date d satisfies a date predicate: Exact(a) is d = a, From(a) is
\* d >= a, Until(a) is d < a, Range(a, b) is a <= d < b, no predicate is any date
Matches(dq, d) ==
    CASE dq.kind = "Exact" -> d = dq.a
      [] dq.kind = "FromDate" -> d >= dq.a
      [] dq.kind = "ToDate" -> d < dq.a
      [] dq.kind = "DateRange" -> dq.a <= d /\ d < dq.b
      [] OTHER -> TRUE

\* dates that tell apart any two predicates over AlgDates: one day more on each side
MatchWindow == (0 - 1)..(MaxAlgDate + 1)

\* the operand of the given kind among opA and opB (opA when both are)
Operand(kind) == IF opA.kind = kind THEN opA ELSE opB
\* the operand other than Operand(kind)
OtherOperand(kind) == IF opA.kind = kind THEN opB ELSE opA

\* C11: From(a) AND Range(f, t) is Range(max(a, f), t) and Until(u) AND Range(f, t)
\* is Range(f, min(u, t)), in either argument order; the result is empty exactly
\* when the narrowed range has from >= to
C11_BoundAndRange ==
    pc = "and_done"
    => /\ {opA.kind, opB.kind} = {"FromDate", "DateRange"}
          => LET r == Operand("DateRange")
                 lo == Max(Operand("FromDate").a, r.a)
             IN IF lo < r.b THEN opR = DateRange(lo, r.b) ELSE is_empty(opR)
       /\ {opA.kind, opB.kind} = {"ToDate", "DateRange"}
          => LET r == Operand("DateRange")
                 hi == Min(Operand("ToDate").a, r.b)
             IN IF r.a < hi THEN opR = DateRange(r.a, hi) ELSE is_empty(opR)

\* C12: Exact(d) AND P, in either argument order, is Exact(d) when d satisfies P
\* (P among From, Until, Range, Exact) and satisfies the emptiness test otherwise
C12_ExactAnd ==
    (pc = "and_done" /\ "Exact" \in {opA.kind, opB.kind})
    => LET d == Operand("Exact").a
           P == OtherOperand("Exact")
       IN IF Matches(P, d) THEN opR = Exact(d) ELSE is_empty(opR)

\* an Exact date inside a Range, met in the order (Range, Exact), stays that date,
\* and an Exact date on the excluded end of an Until becomes empty
C12_Witness ==
    /\ pc = "and_done"
    /\ \/ opA = DateRange(0, 2) /\ opB = Exact(1) /\ opR = Exact(1)
       \/ opA = Exact(2) /\ opB = ToDate(2) /\ is_empty(opR)

\* C13: when no date satisfies both operands (an empty operand included), their
\* AND satisfies the emptiness test, the planner selects the Empty strategy for
\* it and that strategy yields no record
C13_EmptyIntersection ==
    (pc = "and_done" /\ \A d \in MatchWindow : ~(Matches(opA, d) /\ Matches(opB, d)))
    => /\ is_empty(opR)
       /\ \A c \in Countries :
             /\ into_iter(tab, [countries |-> Insert(CountrySetNew, c), date_filter |-> opR])
                   = {IterEmpty}
             /\ IterNextOf(tab, IterEmpty).item = None

\* an Until that ends before a Range starts, and an Exact date met with an Until
\* that ends on it
C13_Witness ==
    /\ pc = "and_done"
    /\ \/ opA = ToDate(0) /\ opB = DateRange(1, 3) /\ is_empty(opR)
       \/ opA = Exact(1) /\ opB = ToDate(1) /\ is_empty(opR)

\* C14: AND of date predicates is associative: (a AND b) AND c and
\* a AND (b AND c) are satisfied by the same dates
C14_Associative ==
    pc = "assoc_done"
    => \A d \in MatchWindow : Matches(assocL, d) <=> Matches(assocR, d)

\* C15: Query::and(a, b) has the union of both country sets and, as its date
\* predicate, the only one present unchanged, the AND of both when both are
\* present, none when neither is
C15_QueryAnd ==
    pc = "qand_done"
    => /\ Members(query.countries) = Members(qA.countries) \cup Members(qB.countries)
       /\ query.date_filter =
             CASE qA.date_filter = NoFilter /\ qB.date_filter = NoFilter -> NoFilter
               [] qA.date_filter = NoFilter -> qB.date_filter
               [] qB.date_filter = NoFilter -> qA.date_filter
               [] OTHER -> bitand(qA.date_filter, qB.date_filter)

\* two queries with different countries and a date predicate each
C15_Witness ==
    /\ pc = "qand_done"
    /\ Members(qA.countries) = {0} /\ qA.date_filter = FromDate(1)
    /\ Members(qB.countries) = {2} /\ qB.date_filter = ToDate(3)
    /\ Members(query.countries) = {0, 2} /\ query.date_filter = DateRange(1, 3)

\* whether a range with the given bounds contains the value d
InBounds(sb, eb, d) ==
    /\ CASE sb.kind = "Included" -> sb.v <= d
         [] sb.kind = "Excluded" -> sb.v < d
         [] OTHER -> TRUE
    /\ CASE eb.kind = "Included" -> d <= eb.v
         [] eb.kind = "Excluded" -> d < eb.v
         [] OTHER -> TRUE

\* C16: the date predicate built by date_range from the bounds of a range of
\* dates is satisfied by d exactly when the range contains d; the fully unbounded
\* range gives no date predicate; a start after the end gives an empty predicate
C16_DateRange ==
    (pc = "sel_done" /\ sel.date.kind = "Range")
    => LET sb == sel.date.sb
           eb == sel.date.eb
           f == query.date_filter
       IN /\ \A d \in MatchWindow : Matches(f, d) <=> InBounds(sb, eb, d)
          /\ f = NoFilter <=> (sb = Unbounded /\ eb = Unbounded)
          /\ (sb # Unbounded /\ eb # Unbounded /\ sb.v > eb.v) => is_empty(f)

\* an excluded start with an included end, and a start after its end
C16_Witness ==
    /\ pc = "sel_done"
    /\ \/ /\ sel.date = DateRangeSel(Excluded(0), Included(2))
          /\ query.date_filter = DateRange(1, 3)
       \/ /\ sel.date = DateRangeSel(Included(3), Included(1))
          /\ is_empty(query.date_filter)

\* the day of 31 December of a year
LastDayOfYear(y) == from_ymd(y, 12, 31)

\* C17: an inclusive range of years a..=b given as the date argument selects the
\* dates from 1 January of a through 31 December of b and none outside
C17_YearRange ==
    (/\ pc = "sel_done" /\ sel.date.kind = "RangeYears"
     /\ sel.date.sb.kind = "Included" /\ sel.date.eb.kind = "Included"
     /\ sel.date.sb.v <= sel.date.eb.v)
    => LET first == from_ymd(sel.date.sb.v, 1, 1)
           last == LastDayOfYear(sel.date.eb.v)
       IN \A d \in (first - 1)..(last + 1) :
             Matches(query.date_filter, d) <=> (first <= d /\ d <= last)

\* C18: with an Option that is None as the countries argument the call behaves
\* as with Any: its query covers every enabled country
C18_NoneIsAny ==
    (pc = "sel_done" /\ sel.countries = SelMany(<<>>))
    => Members(query.countries) = Countries

\* get_bounding_entries has been called
BoundsAsked == pc \in {"bounds", "bounds_done", "bounds_panic"}

\* C19: every entry is (country, None) when the country has no record, and
\* otherwise the records at the first and last position of the country, so that
\* first.date <= last.date and first = last for a country with one record
C19_BoundingEntries ==
    BoundsAsked
    => /\ pc # "bounds_panic"
       /\ \A k \in 1..Len(bout) :
             LET e == bout[k]
                 own == PositionsOf({e.country})
             IN IF own = {}
                THEN e.first = None /\ e.last = None
                ELSE /\ e.first = SetMin(own) /\ e.last = SetMax(own)
                     /\ tab.DATA[e.first + 1].date <= tab.DATA[e.last + 1].date
                     /\ Cardinality(own) = 1 => e.first = e.last

\* the countries a selection names, in the order the entries are due
SelectedSeq(cs) ==
    CASE cs.kind = "All" -> AscendingSeq(Countries)
      [] cs.kind = "One" -> <<cs.c>>
      [] cs.kind = "Many" -> cs.cs

\* C20: get_bounding_entries yields one entry per selected country: one for a
\* single country, one per element in input order for a collection, one per
\* enabled country for Any
C20_OneEntryPerCountry ==
    BoundsAsked
    => LET got == [k \in 1..Len(bout) |-> bout[k].country]
       IN /\ pc # "bounds_panic"
          /\ IsPrefix(got, SelectedSeq(sel.countries))
          /\ pc = "bounds_done" => got = SelectedSeq(sel.countries)

\* C21: | and & of CountrySets are commutative, associative and idempotent, a
\* country is in A | B iff it is in A or in B, and in A & B iff it is in both
C21_SetAlgebra ==
    pc = "alg_done"
    => /\ csRes.ab_or = csRes.ba_or /\ csRes.ab_and = csRes.ba_and
       /\ csRes.ab_c_or = csRes.a_bc_or /\ csRes.ab_c_and = csRes.a_bc_and
       /\ csRes.aa_or = csA /\ csRes.aa_and = csA
       /\ \A c \in Countries :
             /\ Contains(csRes.ab_or, c) <=> (Contains(csA, c) \/ Contains(csB, c))
             /\ Contains(csRes.ab_and, c) <=> (Contains(csA, c) /\ Contains(csB, c))

\* two overlapping sets, neither inside the other
C21_Witness ==
    /\ pc = "alg_done"
    /\ Members(csA) = {0, 1} /\ Members(csB) = {1, 2}
    /\ Members(csRes.ab_or) = {0, 1, 2} /\ Members(csRes.ab_and) = {1}

\* C22: after any insert, extend, | and & from the empty set, contains(c) holds
\* for every inserted country no intersection removed, and iteration returns
\* exactly the countries contains holds for, once each, in increasing ordinal
\* order, none >= COUNT, and None on every later call
C22_ContainsAndIterate ==
    /\ \A c \in csExp : Contains(csA, c)
    /\ pc = "set_iter"
       => LET members == AscendingSeq({c \in Countries : Contains(csA, c)})
          IN \A k \in 1..Len(csOut) :
                csOut[k] = IF k <= Len(members) THEN members[k] ELSE None

\* a set built with an intersection in between, iterated two calls past its end
C22_Witness ==
    /\ pc = "set_iter"
    /\ csOps = MaxSetOps
    /\ csExp = {0, 2}
    /\ csOut = <<0, 2, None, None>>

\* C23: the conversion of a Date to SystemTime never panics and returns the
\* instant at 00:00 UTC of that day, which converts back to the same Date, or
\* DateConversionError only when that instant is not representable; every date
\* of TimeDates is a representable instant, the dates from 1970 to the last year
\* of the dataset among them
C23_SystemTime ==
    /\ pc \in {"time_out", "time_back"}
       => /\ stOut.kind = "Ok"
          /\ stOut.secs % SECONDS_IN_DAY = 0
          /\ stOut.secs \div SECONDS_IN_DAY = days
    /\ pc = "time_back" => stBack = days

\* the position (0-based) of the first record of the whole table dated date or
\* later, None when there is none
LowerBound(date) ==
    IF PositionsFrom(Countries, date) = {} THEN None
    ELSE SetMin(PositionsFrom(Countries, date))

\* C24: for a date whose year lies in [DATA_MIN_YEAR, DATA_MAX_YEAR],
\* date_to_index returns the position of the first record of the table dated
\* that date or later, and None only when no record is
C24_DateToIndex ==
    (/\ pc = "lookup" /\ idxCall.fn = "date_to_index"
     /\ DateYear(idxCall.arg) >= tab.DATA_MIN_YEAR
     /\ DateYear(idxCall.arg) <= tab.DATA_MAX_YEAR)
    => idxCall.result = LowerBound(idxCall.arg)

\* C25: year_to_index returns None for a year outside [DATA_MIN_YEAR,
\* DATA_MAX_YEAR] and, for a year inside it, DATA_MAX_YEAR included, reads an
\* existing entry of YEAR_JUMP_TABLE
C25_YearToIndex ==
    (pc = "lookup" /\ idxCall.fn = "year_to_index")
    => IF idxCall.arg < tab.DATA_MIN_YEAR \/ idxCall.arg > tab.DATA_MAX_YEAR
       THEN idxCall.result = None
       ELSE ~idxCall.oob

\* C26: the builder's ymd_as_isize(y, m, d) is the day index of
\* Date::from_ymd(y, m, d) for every calendar date
C26_BuilderDayIndex == pc = "cal_stored" => dayIndex = days

\* positions (0-based) of the records built from the rows of year y
PositionsOfYear(y) ==
    LET hs == LoadHolidays(rows)
    IN {i - 1 : i \in {j \in 1..Len(hs) : hs[j].date.year = y}}

\* the start of the slice of year y: the table's entry, and the length of DATA
\* for the year after DATA_MAX_YEAR
YearStart(y) ==
    IF y > tab.DATA_MAX_YEAR THEN DataLen(tab)
    ELSE tab.YEAR_JUMP_TABLE[y - tab.DATA_MIN_YEAR + 1]

\* C27: YEAR_JUMP_TABLE has an entry T[y] for every year of [DATA_MIN_YEAR,
\* DATA_MAX_YEAR], T is non-decreasing, and the positions T[y] .. T[y+1] - 1
\* are exactly the records of year y (none for a year without records)
C27_YearTable ==
    pc = "built"
    => \A y \in tab.DATA_MIN_YEAR..tab.DATA_MAX_YEAR :
          /\ y - tab.DATA_MIN_YEAR + 1 <= Len(tab.YEAR_JUMP_TABLE)
          /\ YearStart(y) <= YearStart(y + 1)
          /\ {p \in 0..(DataLen(tab) - 1) : YearStart(y) <= p /\ p < YearStart(y + 1)}
             = PositionsOfYear(y)

\* C28: COUNTRY_JUMP_TABLE has an entry for every enabled country c, and the
\* entry lists the positions of the records of c in ascending order
C28_CountryTable ==
    pc = "built"
    => \A c \in Countries :
          /\ c + 1 <= Len(tab.COUNTRY_JUMP_TABLE)
          /\ tab.COUNTRY_JUMP_TABLE[c + 1] = AscendingSeq(PositionsOf({c}))

\* impl Ord for Holiday: by date, then country, then name
HolidayLE(r1, r2) ==
    \/ r1.date < r2.date
    \/ /\ r1.date = r2.date
       /\ \/ r1.code < r2.code
          \/ r1.code = r2.code /\ NameRank(r1.name) <= NameRank(r2.name)

\* the rows of enabled countries whose date parses and whose year is in the
\* inclusive window, in file order
WindowRows(rs) ==
    SelectSeq(rs, LAMBDA row :
        /\ CountryIndex(row.code) # None
        /\ RowDateParses(row)
        /\ row.y >= DEFAULT_MIN_YEAR /\ row.y <= DEFAULT_MAX_YEAR)

\* the record DATA holds for a row
RecordOf(row) ==
    [code |-> CountryIndex(row.code),
     date |-> ymd_as_isize(row.y, row.m, row.d),
     name |-> row.name]

\* how many times x occurs in the sequence s
Occurrences(s, x) == Cardinality({i \in 1..Len(s) : s[i] = x})

\* C29: for any order of the rows of holidays.csv, DATA is sorted by (date,
\* country ordinal, name) and holds exactly the rows of enabled countries whose
\* year is in the inclusive window [min, max]
C29_SortedWindow ==
    pc = "built"
    => /\ \A i \in 1..(DataLen(tab) - 1) : HolidayLE(tab.DATA[i], tab.DATA[i + 1])
       /\ LET wanted == WindowRows(rows)
          IN /\ DataLen(tab) = Len(wanted)
             /\ \A i \in 1..Len(wanted) :
                   Occurrences(tab.DATA, RecordOf(wanted[i]))
                   = Occurrences([k \in 1..Len(wanted) |-> RecordOf(wanted[k])],
                                 RecordOf(wanted[i]))

\* a row is well formed when its country is enabled and its date parses
WellFormed(row) == CountryIndex(row.code) # None /\ RowDateParses(row)

\* C30: a row whose date does not parse or whose country is not enabled is
\* dropped: the build ends as it does on the file without those rows, and
\* never aborts because of them
C30_MalformedDropped ==
    LET good == SelectSeq(rows, WellFormed)
        hs == LoadHolidays(good)
    IN /\ pc = "buildpanic" => GenPanics(hs)
       /\ pc = "built" => ~GenPanics(hs) /\ tab = gen_data_tables(hs)

====
